---- MODULE Spec2Model ----
(***************************************************************************)
(* PK-Formula (src/c/pk_formula.c): the closed-form solver pk_formula and  *)
(* the checker verify_solution, as operations of a caller that owns the    *)
(* arrays a, p, x and the scalars b, k, n, error.                          *)
(*                                                                         *)
(* The C type double is modelled as a binary floating-point format with    *)
(* the IEEE-754 structure of binary64 (sign, integer significand of        *)
(* Precision bits, exponent, signed zeros, subnormals, infinities, NaN,    *)
(* round-to-nearest-even) with the exponent range of binary64 and a        *)
(* reduced Precision.                                                      *)
(* A finite value is (-1)^s * m * 2^e.                                     *)
(***************************************************************************)
EXTENDS Integers, Naturals, Sequences, FiniteSets, TLC

\* ------------------------------------------------------------------------
\* Bounds of the model
\* ------------------------------------------------------------------------
Precision == 5      \* significand bits of the modelled double
Cap == 2            \* allocated length of the arrays a, p and x
MaxCalls == 2       \* calls made by one caller run

\* ------------------------------------------------------------------------
\* The double format
\* ------------------------------------------------------------------------
ExpMax == 1023      \* largest binary exponent of a finite double
ELo == 2 - ExpMax - Precision       \* exponent of the subnormals, as m * 2^e
EHi == ExpMax - Precision + 1       \* largest exponent, as m * 2^e

RECURSIVE Pow2(_)
Pow2(i) == IF i <= 0 THEN 1 ELSE 2 * Pow2(i - 1)

RECURSIVE BitLen(_)
BitLen(M) == IF M = 0 THEN 0 ELSE 1 + BitLen(M \div 2)

NaN == [c |-> "nan", s |-> 0, m |-> 0, e |-> 0]
Inf(sg) == [c |-> "inf", s |-> sg, m |-> 0, e |-> 0]
Zero(sg) == [c |-> "fin", s |-> sg, m |-> 0, e |-> 0]

IsNaN(v) == v.c = "nan"
IsInf(v) == v.c = "inf"
IsFin(v) == v.c = "fin"
IsZero(v) == v.c = "fin" /\ v.m = 0
IsSpecial(v) == v.c = "nan" \/ v.c = "inf"

\* a finite result with significand m1 (at most Precision bits) and exponent e1
Pack(sg, m1, e1) ==
    IF m1 = 0 THEN Zero(sg)
    ELSE IF e1 > EHi THEN Inf(sg)
    ELSE [c |-> "fin", s |-> sg, m |-> m1, e |-> e1]

\* Round to nearest, ties to even, of the exact value
\* (-1)^sg * (M + d) * 2^E, where 0 < d < 1 when st (sticky) and d = 0
\* otherwise.  A sticky value carries at least Precision + 2 bits in M.
RoundU(sg, M, E, st) ==
    IF M = 0 THEN Zero(sg)
    ELSE LET nb == BitLen(M)
             sh == IF E + nb - Precision < ELo THEN ELo - E ELSE nb - Precision
         IN  IF sh <= 0 THEN Pack(sg, M * Pow2(-sh), E + sh)
             ELSE IF sh > nb + 1 THEN Zero(sg)
             ELSE LET q == M \div Pow2(sh)
                      r == M % Pow2(sh)
                      half == Pow2(sh - 1)
                      up == r > half \/ (r = half /\ (st \/ q % 2 = 1))
                      m1 == IF up THEN q + 1 ELSE q
                  IN  IF m1 = Pow2(Precision)
                      THEN Pack(sg, Pow2(Precision - 1), E + sh + 1)
                      ELSE Pack(sg, m1, E + sh)

\* the rounding of (-1)^sg * (M + d) * 2^E loses nothing
ExactU(sg, M, E, st) ==
    LET r == RoundU(sg, M, E, st)
    IN  /\ ~st
        /\ r.c = "fin"
        /\ \/ M = 0
           \/ /\ r.m # 0
              /\ IF r.e >= E THEN r.m * Pow2(r.e - E) = M
                             ELSE r.m = M * Pow2(E - r.e)

\* the double nearest to M * 2^E (a literal of the source text)
Lit(sg, M, E) == RoundU(sg, M, E, FALSE)

\* conversion of an int to double, as in (n-1)*k
IntToDouble(i) == IF i < 0 THEN RoundU(1, -i, 0, FALSE) ELSE RoundU(0, i, 0, FALSE)

Neg(v) == IF IsNaN(v) THEN NaN ELSE [v EXCEPT !.s = 1 - v.s]

\* fabs of <math.h>
fabs(v) == IF IsNaN(v) THEN NaN ELSE [v EXCEPT !.s = 0]

Xor(s1, s2) == IF s1 = s2 THEN 0 ELSE 1

\* the unrounded product of two finite values
MulU(v, w) == [s |-> Xor(v.s, w.s), M |-> v.m * w.m, E |-> v.e + w.e, st |-> FALSE]

\* v * w
Mul(v, w) ==
    IF IsNaN(v) \/ IsNaN(w) THEN NaN
    ELSE IF IsInf(v) \/ IsInf(w)
         THEN IF IsZero(v) \/ IsZero(w) THEN NaN ELSE Inf(Xor(v.s, w.s))
    ELSE LET u == MulU(v, w) IN RoundU(u.s, u.M, u.E, u.st)

\* guard bits of a quotient
DivShift == 2 * Precision + 2

\* the unrounded quotient of two finite values, w # 0
DivU(v, w) ==
    [s |-> Xor(v.s, w.s),
     M |-> (v.m * Pow2(DivShift)) \div w.m,
     E |-> v.e - w.e - DivShift,
     st |-> (v.m * Pow2(DivShift)) % w.m # 0]

\* v / w
Div(v, w) ==
    IF IsNaN(v) \/ IsNaN(w) THEN NaN
    ELSE IF IsInf(v) THEN (IF IsInf(w) THEN NaN ELSE Inf(Xor(v.s, w.s)))
    ELSE IF IsInf(w) THEN Zero(Xor(v.s, w.s))
    ELSE IF IsZero(w) THEN (IF IsZero(v) THEN NaN ELSE Inf(Xor(v.s, w.s)))
    ELSE LET u == DivU(v, w) IN RoundU(u.s, u.M, u.E, u.st)

\* the unrounded sum of two finite nonzero values, as a signed integer
\* T scaled by 2^E, with sticky: the exact sum is (T + d) * 2^E when T >= 0
\* and (T - d) * 2^E when T < 0
AddU(v, w) ==
    LET hi == IF v.e >= w.e THEN v ELSE w
        lo == IF v.e >= w.e THEN w ELSE v
        d == hi.e - lo.e
        sh == IF hi.s = 0 THEN 1 ELSE -1
        sl == IF lo.s = 0 THEN 1 ELSE -1
    IN  IF d <= Precision + 3
        THEN [T |-> sh * hi.m * Pow2(d) + sl * lo.m, E |-> lo.e, st |-> FALSE]
        ELSE [T |-> sh * (IF hi.s = lo.s THEN hi.m * 8 ELSE hi.m * 8 - 1),
              E |-> hi.e - 3, st |-> TRUE]

\* v + w
Add(v, w) ==
    IF IsNaN(v) \/ IsNaN(w) THEN NaN
    ELSE IF IsInf(v) THEN (IF IsInf(w) /\ w.s # v.s THEN NaN ELSE v)
    ELSE IF IsInf(w) THEN w
    ELSE IF IsZero(v) /\ IsZero(w) THEN (IF v.s = 1 /\ w.s = 1 THEN Zero(1) ELSE Zero(0))
    ELSE IF IsZero(v) THEN w
    ELSE IF IsZero(w) THEN v
    ELSE LET u == AddU(v, w)
         IN  IF u.T = 0 THEN Zero(0)
             ELSE IF u.T > 0 THEN RoundU(0, u.T, u.E, u.st)
             ELSE RoundU(1, -u.T, u.E, u.st)

\* v - w
Sub(v, w) == Add(v, Neg(w))

\* v < w; false when either is NaN
Lt(v, w) ==
    IF IsNaN(v) \/ IsNaN(w) THEN FALSE
    ELSE LET dlt == Sub(v, w)
         IN  ~IsNaN(dlt) /\ ~IsZero(dlt) /\ dlt.s = 1

One == Lit(0, 1, 0)

\* v is a finite integer; v is a finite odd integer
IsInteger(v) ==
    /\ IsFin(v)
    /\ \/ v.m = 0
       \/ v.e >= 0
       \/ (-v.e < Precision /\ v.m % Pow2(-v.e) = 0)
IsOddInteger(v) ==
    /\ IsInteger(v)
    /\ v.m # 0
    /\ \/ (v.e = 0 /\ v.m % 2 = 1)
       \/ (v.e < 0 /\ (v.m \div Pow2(-v.e)) % 2 = 1)

\* |v| as an integer, for an integer v; 2|v| for an odd multiple of 1/2
IntOf(v) == IF v.e >= 0 THEN v.m * Pow2(v.e) ELSE v.m \div Pow2(-v.e)
TwiceOf(v) == v.m \div Pow2(-v.e - 1)

RECURSIVE IPow(_, _)
IPow(base, i) == IF i = 0 THEN 1 ELSE base * IPow(base, i - 1)

RECURSIVE ISqrtFrom(_, _, _)
ISqrtFrom(M, bit, acc) ==
    IF bit = 0 THEN acc
    ELSE IF (acc + bit) * (acc + bit) <= M
         THEN ISqrtFrom(M, bit \div 2, acc + bit)
         ELSE ISqrtFrom(M, bit \div 2, acc)
\* floor of the square root of M
ISqrt(M) == ISqrtFrom(M, 16384, 0)

\* the unrounded magnitude of (mx * 2^ex)^y for mx > 0 and a finite y # 0
\* that is an integer or an odd multiple of 1/2 (the exponents the inputs
\* of this model lead to)
PowU(mx, ex, y) ==
    IF IsInteger(y)
    THEN LET i == IntOf(y)
             A == IPow(mx, i)
             t == (i + 1) * Precision + 2
         IN  IF y.s = 0
             THEN [M |-> A, E |-> ex * i, st |-> FALSE]
             ELSE [M |-> Pow2(t) \div A, E |-> -(ex * i) - t, st |-> Pow2(t) % A # 0]
    ELSE LET i == TwiceOf(y)
             par == (ex * i) % 2
             g == ((ex * i) - par) \div 2
             A == IPow(mx, i) * Pow2(par)
             u == Precision + 2
             S == A * Pow2(2 * u)
             T == 2 * (((i + 2) * Precision + 4) \div 2)
             Q == Pow2(T) \div A
         IN  IF y.s = 0
             THEN [M |-> ISqrt(S), E |-> g - u, st |-> ISqrt(S) * ISqrt(S) # S]
             ELSE [M |-> ISqrt(Q), E |-> -g - (T \div 2),
                   st |-> ISqrt(Q) * ISqrt(Q) * A # Pow2(T)]

\* pow of <math.h>: the special cases of C99 F.9.4.4, and otherwise the
\* correctly rounded power (a result that is representable is returned
\* exactly, as by any pow accurate to less than one unit in the last place)
pow(v, y) ==
    IF IsZero(y) THEN One
    ELSE IF v = One THEN One
    ELSE IF IsNaN(v) \/ IsNaN(y) THEN NaN
    ELSE IF IsInf(y)
         THEN IF fabs(v) = One THEN One
              ELSE IF Lt(fabs(v), One)
                   THEN (IF y.s = 1 THEN Inf(0) ELSE Zero(0))
                   ELSE (IF y.s = 1 THEN Zero(0) ELSE Inf(0))
    ELSE LET sg == IF v.s = 1 /\ IsOddInteger(y) THEN 1 ELSE 0
         IN  IF IsInf(v) THEN (IF y.s = 1 THEN Zero(sg) ELSE Inf(sg))
             ELSE IF IsZero(v) THEN (IF y.s = 1 THEN Inf(sg) ELSE Zero(sg))
             ELSE IF v.s = 1 /\ ~IsInteger(y) THEN NaN
             ELSE LET u == PowU(v.m, v.e, y) IN RoundU(sg, u.M, u.E, u.st)

\* pow(v, y) is a finite value computed without rounding
PowExact(v, y) ==
    /\ IsFin(v) /\ IsFin(y) /\ ~IsZero(v) /\ ~IsZero(y)
    /\ ~(v.s = 1 /\ ~IsInteger(y))
    /\ LET u == PowU(v.m, v.e, y) IN ExactU(0, u.M, u.E, u.st)

\* ------------------------------------------------------------------------
\* State of a caller of the library
\* ------------------------------------------------------------------------
\* a, p, x: the caller's arrays; b, k, n: its scalars; error: its error
\* variable; ptr: which of the pointers it passes are non-NULL; ret: the value
\* the last call returned; stderr: the lines printed so far.
\* calls counts the calls; last records the last call (its name and the
\* caller's x, error and stderr before it); xBy records who wrote x last.
VARIABLES a, p, b, k, n, x, error, ptr, ret, stderr, calls, last, xBy
vars == <<a, p, b, k, n, x, error, ptr, ret, stderr, calls, last, xBy>>

Idx == 0 .. (Cap - 1)

\* the literal 1e-10 = 0x1.b7cdfd9d7bdbbp-34 as a double
TOL == RoundU(0, 112589, -50, TRUE)

MsgSize == "Error: n must be positive\n"
MsgNull == "Error: NULL pointer provided\n"

\* ------------------------------------------------------------------------
\* pk_formula
\* ------------------------------------------------------------------------
\* the radicand of x[0]: (b - (n-1)*k) / a[0]
Radicand0(aa, bb, kk, nn) == Div(Sub(bb, Mul(IntToDouble(nn - 1), kk)), aa[0])
\* the radicand of x[i], i >= 1: k / a[i]
Radicand(aa, kk, i) == Div(kk, aa[i])
\* the exponent 1.0/p[i]
InvExp(pp, i) == Div(One, pp[i])

\* variants of the code below, each with one slip
pk_x0_CountsAll(aa, pp, bb, kk, nn) ==
    pow(Div(Sub(bb, Mul(IntToDouble(nn), kk)), aa[0]), InvExp(pp, 0))
pk_x0_AbsRadicand(aa, pp, bb, kk, nn) ==
    pow(fabs(Radicand0(aa, bb, kk, nn)), InvExp(pp, 0))
pk_xi_NoReciprocal(aa, pp, kk, i) == pow(Radicand(aa, kk, i), pp[i])
pk_xi_InvertedQuotient(aa, pp, kk, i) == pow(Div(aa[i], kk), InvExp(pp, i))

pk_x0(aa, pp, bb, kk, nn) == pow(Radicand0(aa, bb, kk, nn), InvExp(pp, 0))
pk_xi(aa, pp, kk, i) == pow(Radicand(aa, kk, i), InvExp(pp, i))

pk_formula_ret_ZeroAllowed(nn, pt) ==
    IF nn < 0 THEN -1
    ELSE IF ~pt.a \/ ~pt.p \/ ~pt.x THEN -1
    ELSE 0

\* the return value of pk_formula
pk_formula_ret(nn, pt) ==
    IF nn <= 0 THEN -1
    ELSE IF ~pt.a \/ ~pt.p \/ ~pt.x THEN -1
    ELSE 0

pk_formula_msg_Chatty(nn, pt) ==
    IF nn <= 0 THEN <<MsgSize>>
    ELSE IF ~pt.a \/ ~pt.p \/ ~pt.x THEN <<MsgNull>>
    ELSE <<"Solved\n">>

\* what pk_formula prints on stderr
pk_formula_msg(nn, pt) ==
    IF nn <= 0 THEN <<MsgSize>>
    ELSE IF ~pt.a \/ ~pt.p \/ ~pt.x THEN <<MsgNull>>
    ELSE << >>

pk_formula_x_LoopOverrun(aa, pp, bb, kk, nn, xx, pt) ==
    IF pk_formula_ret(nn, pt) # 0 THEN xx
    ELSE [i \in Idx |-> IF i = 0 THEN pk_x0(aa, pp, bb, kk, nn)
                        ELSE IF i <= nn THEN pk_xi(aa, pp, kk, i)
                        ELSE xx[i]]

\* the array x after pk_formula
pk_formula_x(aa, pp, bb, kk, nn, xx, pt) ==
    IF pk_formula_ret(nn, pt) # 0 THEN xx
    ELSE [i \in Idx |-> IF i = 0 THEN pk_x0(aa, pp, bb, kk, nn)
                        ELSE IF i < nn THEN pk_xi(aa, pp, kk, i)
                        ELSE xx[i]]

pk_formula ==
    /\ calls < MaxCalls
    /\ x' = pk_formula_x(a, p, b, k, n, x, ptr)
    /\ ret' = pk_formula_ret(n, ptr)
    /\ stderr' = stderr \o pk_formula_msg(n, ptr)
    /\ calls' = calls + 1
    /\ last' = [op |-> "pk_formula", x |-> x, error |-> error, stderr |-> stderr]
    /\ xBy' = IF pk_formula_ret(n, ptr) = 0 THEN "pk_formula" ELSE xBy
    /\ UNCHANGED <<a, p, b, k, n, error, ptr>>

\* ------------------------------------------------------------------------
\* verify_solution
\* ------------------------------------------------------------------------
RECURSIVE SumLoop(_, _, _, _, _, _)
\* the loop of verify_solution from index i with the running sum
SumLoop(xx, aa, pp, nn, i, sum) ==
    IF i < nn
    THEN SumLoop(xx, aa, pp, nn, i + 1, Add(sum, Mul(aa[i], pow(xx[i], pp[i]))))
    ELSE sum

verify_sum(xx, aa, pp, nn) == SumLoop(xx, aa, pp, nn, 0, Zero(0))
verify_error(xx, aa, pp, bb, nn) == fabs(Sub(verify_sum(xx, aa, pp, nn), bb))

verify_null_ErrorUnchecked(pt) == ~pt.x \/ ~pt.a \/ ~pt.p

verify_null(pt) == ~pt.x \/ ~pt.a \/ ~pt.p \/ ~pt.error

verify_solution_ret_NonStrict(xx, aa, pp, bb, nn, pt) ==
    IF verify_null(pt) THEN 0
    ELSE IF Lt(verify_error(xx, aa, pp, bb, nn), TOL)
            \/ verify_error(xx, aa, pp, bb, nn) = TOL THEN 1 ELSE 0
verify_solution_ret_ChecksN(xx, aa, pp, bb, nn, pt) ==
    IF verify_null(pt) \/ nn <= 0 THEN 0
    ELSE IF Lt(verify_error(xx, aa, pp, bb, nn), TOL) THEN 1 ELSE 0

\* the return value of verify_solution
verify_solution_ret(xx, aa, pp, bb, nn, pt) ==
    IF verify_null(pt) THEN 0
    ELSE IF Lt(verify_error(xx, aa, pp, bb, nn), TOL) THEN 1 ELSE 0

verify_solution_msg(pt) == IF verify_null(pt) THEN <<MsgNull>> ELSE << >>

\* *error after verify_solution
verify_solution_error(xx, aa, pp, bb, nn, er, pt) ==
    IF verify_null(pt) THEN er ELSE verify_error(xx, aa, pp, bb, nn)

verify_solution ==
    /\ calls < MaxCalls
    /\ error' = verify_solution_error(x, a, p, b, n, error, ptr)
    /\ ret' = verify_solution_ret(x, a, p, b, n, ptr)
    /\ stderr' = stderr \o verify_solution_msg(ptr)
    /\ calls' = calls + 1
    /\ last' = [op |-> "verify_solution", x |-> x, error |-> error, stderr |-> stderr]
    /\ UNCHANGED <<a, p, b, k, n, x, ptr, xBy>>

\* ------------------------------------------------------------------------
\* The caller's problem data
\* ------------------------------------------------------------------------
Two == Lit(0, 2, 0)
Half == Lit(0, 1, -1)
AVals == {One, Two, Zero(0)}
PVals == {Two, Lit(1, 1, 0), Zero(0), Half}
BVals == {Lit(0, 9, 0), Lit(1, 4, 0), Zero(1), TOL}
KVals == {One, Lit(1, 1, 0), NaN}
XVals == {Zero(0), One, NaN}

\* arrays of length Cap: a first element and a common value for the others
Arrays(S) == {[i \in Idx |-> IF i = 0 THEN h ELSE t] : h \in S, t \in S}
Uniform(S) == {[i \in Idx |-> v] : v \in S}

AllPresent == [a |-> TRUE, p |-> TRUE, x |-> TRUE, error |-> TRUE]
Ptrs == {AllPresent} \cup {[AllPresent EXCEPT ![f] = FALSE] : f \in {"a", "p", "x", "error"}}

Init ==
    /\ n \in -1 .. Cap
    /\ ptr \in Ptrs
    /\ a \in Arrays(AVals)
    /\ p \in Arrays(PVals)
    /\ b \in BVals
    /\ k \in KVals
    /\ x \in Uniform(XVals)
    /\ (n <= 0 \/ ptr # AllPresent) =>
           (a \in Uniform({One}) /\ p \in Uniform({Two}) /\ k = One)
    /\ error = Lit(0, 3, 0)
    /\ ret = 0
    /\ stderr = << >>
    /\ calls = 0
    /\ last = [op |-> "none", x |-> x, error |-> error, stderr |-> << >>]
    /\ xBy = "caller"

Next == pk_formula \/ verify_solution

Spec == Init /\ [][Next]_vars

\* ------------------------------------------------------------------------
\* Vocabulary of the properties
\* ------------------------------------------------------------------------
\* the last call was pk_formula / verify_solution
AfterPk == last.op = "pk_formula"
AfterVerify == last.op = "verify_solution"
\* what the last call printed
Printed == SubSeq(stderr, Len(last.stderr) + 1, Len(stderr))
\* pk_formula's success condition
PkInputsPresent == n >= 1 /\ ptr.a /\ ptr.p /\ ptr.x
\* the pointers verify_solution needs
VerifyInputsPresent == ptr.x /\ ptr.a /\ ptr.p /\ ptr.error
\* a valid problem: no zero coefficient, no zero exponent
ValidProblem == \A i \in Idx : i < n => (~IsZero(a[i]) /\ ~IsZero(p[i]))

\* the sum a[0]*x[0]^p[0] + ... + a[j-1]*x[j-1]^p[j-1], added in index order
RECURSIVE ConstraintSum(_)
ConstraintSum(j) ==
    IF j <= 0 THEN Zero(0)
    ELSE Add(ConstraintSum(j - 1), Mul(a[j - 1], pow(x[j - 1], p[j - 1])))

\* C2: after a successful pk_formula (n >= 1, a, p, x present) the return
\* value is 0, x[0] = ((b - (n-1)*k) / a[0]) ^ (1/p[0]) and
\* x[i] = (k / a[i]) ^ (1/p[i]) for 1 <= i < n, whatever x held before.
C2_SolverFormula ==
    (AfterPk /\ PkInputsPresent) =>
        /\ ret = 0
        /\ x[0] = pow(Div(Sub(b, Mul(IntToDouble(n - 1), k)), a[0]), Div(One, p[0]))
        /\ \A i \in Idx : (1 <= i /\ i < n) => x[i] = pow(Div(k, a[i]), Div(One, p[i]))
C2_Witness ==
    /\ AfterPk /\ PkInputsPresent /\ n = Cap /\ ret = 0
    /\ \A i \in Idx : IsFin(x[i]) /\ x[i] # last.x[i]
    /\ x[0] # x[1]

\* C3: with x, a, p and error present, verify_solution sets
\* error = |sum - b| for sum = a[0]*x[0]^p[0] + ... + a[n-1]*x[n-1]^p[n-1]
\* and returns 1 exactly when error < 1e-10 (strictly): an error equal to
\* 1e-10 and a NaN sum both give 0.
C3_VerifierResult ==
    (AfterVerify /\ VerifyInputsPresent) =>
        /\ error = fabs(Sub(ConstraintSum(n), b))
        /\ ret \in {0, 1}
        /\ (ret = 1) <=> Lt(error, TOL)
        /\ error = TOL => ret = 0
        /\ IsNaN(ConstraintSum(n)) => ret = 0
C3_Witness ==
    /\ AfterVerify /\ VerifyInputsPresent /\ n >= 1
    /\ error = TOL /\ ret = 0

\* C4: pk_formula with n <= 0 fails as InvalidSize (returns -1 and reports
\* that n must be positive) and writes no element of x, whatever the other
\* arguments are, absent arrays included.
C4_InvalidSize ==
    (AfterPk /\ n <= 0) =>
        /\ ret = -1
        /\ Printed = <<MsgSize>>
        /\ x = last.x
C4_Witness ==
    /\ AfterPk /\ n <= 0 /\ ~ptr.a
    /\ ret = -1 /\ Printed = <<MsgSize>>

\* C10: verify_solution with n <= 0 and all pointers present adds nothing
\* to the sum, sets error = |b| and returns 1 exactly when |b| < 1e-10,
\* although pk_formula rejects the same n.
C10_VerifyIgnoresN ==
    (AfterVerify /\ VerifyInputsPresent /\ n <= 0) =>
        /\ error = fabs(b)
        /\ (ret = 1) <=> Lt(fabs(b), TOL)
        /\ ret \in {0, 1}
        /\ Printed = << >>
        /\ pk_formula_ret(n, ptr) = -1
C10_Witness ==
    /\ AfterVerify /\ VerifyInputsPresent /\ n <= 0
    /\ IsZero(b) /\ ret = 1

\* C5 as claimed: a call with an absent required pointer fails as NullInput
\* (pk_formula returns -1, verify_solution returns 0, each reporting a NULL
\* pointer) and writes neither x nor error.
C5_NullInputAsClaimed ==
    /\ (AfterPk /\ (~ptr.a \/ ~ptr.p \/ ~ptr.x)) =>
           (ret = -1 /\ Printed = <<MsgNull>> /\ x = last.x)
    /\ (AfterVerify /\ ~VerifyInputsPresent) =>
           (ret = 0 /\ Printed = <<MsgNull>> /\ error = last.error)
\* C5 amended: as claimed when n >= 1; with n <= 0 pk_formula still fails and
\* writes nothing, but as InvalidSize: the size check comes first.
C5_NullInput ==
    /\ (AfterPk /\ (~ptr.a \/ ~ptr.p \/ ~ptr.x)) =>
           /\ ret = -1
           /\ x = last.x
           /\ error = last.error
           /\ Printed = IF n >= 1 THEN <<MsgNull>> ELSE <<MsgSize>>
    /\ (AfterVerify /\ ~VerifyInputsPresent) =>
           /\ ret = 0
           /\ Printed = <<MsgNull>>
           /\ error = last.error
           /\ x = last.x
C5_Witness ==
    /\ AfterVerify /\ ~ptr.error /\ n >= 1
    /\ ret = 0 /\ Printed = <<MsgNull>>
    /\ Len(stderr) = 2

\* the radicand of x[i] and the exponent applied to it
RadicandOf(i) == IF i = 0 THEN Radicand0(a, b, k, n) ELSE Radicand(a, k, i)
Negative(v) == IsFin(v) /\ ~IsZero(v) /\ v.s = 1
Positive(v) == IsFin(v) /\ ~IsZero(v) /\ v.s = 0
\* a numeric degeneracy at index i: a zero coefficient, a zero exponent, or
\* a negative radicand under a fractional exponent
Degenerate(i) ==
    \/ IsZero(a[i])
    \/ IsZero(p[i])
    \/ (Negative(RadicandOf(i)) /\ IsFin(InvExp(p, i)) /\ ~IsInteger(InvExp(p, i)))

\* C6 as claimed: with n >= 1 and a, p, x present pk_formula succeeds
\* whatever the values, and every degeneracy shows as Inf or NaN in x.
C6_DegeneraciesAsClaimed ==
    (AfterPk /\ PkInputsPresent) =>
        /\ ret = 0
        /\ Printed = << >>
        /\ \A i \in Idx : (i < n /\ Degenerate(i)) => IsSpecial(x[i])
\* C6 amended: pk_formula succeeds whatever the values and reports nothing;
\* a negative radicand under a fractional exponent gives NaN, while a zero
\* coefficient or a zero exponent gives NaN, an infinity, a zero or 1.
C6_Degeneracies ==
    (AfterPk /\ PkInputsPresent) =>
        /\ ret = 0
        /\ Printed = << >>
        /\ \A i \in Idx : i < n =>
            /\ (Negative(RadicandOf(i)) /\ IsFin(InvExp(p, i)) /\ ~IsInteger(InvExp(p, i)))
                   => IsNaN(x[i])
            /\ IsZero(p[i]) => x[i] \in {NaN, Inf(0), Zero(0), One}
            /\ IsZero(a[i]) => x[i] \in {NaN, Inf(0), Inf(1), Zero(0), Zero(1), One}
C6_Witness ==
    /\ AfterPk /\ PkInputsPresent /\ n = Cap /\ ret = 0
    /\ IsZero(p[0]) /\ x[0] = Zero(0)
    /\ IsZero(a[1]) /\ IsInf(x[1])

\* C7 as claimed: for n = 1 pk_formula writes x[0] = (b / a[0]) ^ (1/p[0]),
\* the same for every k, and writes no other element (stated here for a
\* valid problem only; it fails already there).
C7_SingleVariableAsClaimed ==
    (AfterPk /\ PkInputsPresent /\ n = 1 /\ ValidProblem) =>
        /\ x[0] = pow(Div(b, a[0]), Div(One, p[0]))
        /\ \A i \in Idx : i >= 1 => x[i] = last.x[i]
\* C7 amended: for n = 1 pk_formula writes x[0] alone, computed from the
\* radicand (b - 0*k) / a[0]; it is (b / a[0]) ^ (1/p[0]) for every finite k
\* when b is not negative zero.
C7_SingleVariable ==
    (AfterPk /\ PkInputsPresent /\ n = 1) =>
        /\ x[0] = pow(Div(Sub(b, Mul(Zero(0), k)), a[0]), Div(One, p[0]))
        /\ (IsFin(k) /\ b # Zero(1)) => x[0] = pow(Div(b, a[0]), Div(One, p[0]))
        /\ \A i \in Idx : i >= 1 => x[i] = last.x[i]
C7_Witness ==
    /\ AfterPk /\ PkInputsPresent /\ n = 1 /\ ret = 0
    /\ k = Lit(1, 1, 0) /\ b = Lit(0, 9, 0) /\ a[0] = One /\ p[0] = Two
    /\ x[0] = Lit(0, 3, 0)
    /\ x[1] = last.x[1]

\* ------------------------------------------------------------------------
\* Operations that round nothing away
\* ------------------------------------------------------------------------
MulExact(v, w) ==
    /\ IsFin(v) /\ IsFin(w)
    /\ \/ IsZero(v) \/ IsZero(w)
       \/ LET u == MulU(v, w) IN ExactU(u.s, u.M, u.E, u.st)
DivExact(v, w) ==
    /\ IsFin(v) /\ IsFin(w) /\ ~IsZero(w)
    /\ \/ IsZero(v)
       \/ LET u == DivU(v, w) IN ExactU(u.s, u.M, u.E, u.st)
AddExact(v, w) ==
    /\ IsFin(v) /\ IsFin(w)
    /\ \/ IsZero(v) \/ IsZero(w)
       \/ LET u == AddU(v, w)
          IN  /\ ~u.st
              /\ \/ u.T = 0
                 \/ ExactU(0, IF u.T < 0 THEN -u.T ELSE u.T, u.E, FALSE)

\* every operation pk_formula performs for x[i] is exact and the radicand
\* is positive
SolveExact(i) ==
    /\ DivExact(One, p[i])
    /\ Positive(RadicandOf(i))
    /\ PowExact(RadicandOf(i), InvExp(p, i))
    /\ IF i = 0
       THEN /\ MulExact(IntToDouble(n - 1), k)
            /\ AddExact(b, Neg(Mul(IntToDouble(n - 1), k)))
            /\ DivExact(Sub(b, Mul(IntToDouble(n - 1), k)), a[0])
       ELSE DivExact(k, a[i])

\* every partial sum of verify_solution up to index j is exact
RECURSIVE SumsExact(_)
SumsExact(j) ==
    IF j <= 0 THEN TRUE
    ELSE /\ SumsExact(j - 1)
         /\ AddExact(ConstraintSum(j - 1), Mul(a[j - 1], pow(x[j - 1], p[j - 1])))

\* verify_solution has just checked the x that pk_formula wrote
VerifiedSolverOutput ==
    AfterVerify /\ xBy = "pk_formula" /\ PkInputsPresent /\ ptr.error

C8_ResidualAsClaimed ==
    (AfterPk /\ PkInputsPresent /\ ValidProblem) =>
        /\ Mul(a[0], pow(x[0], p[0])) = Sub(b, Mul(IntToDouble(n - 1), k))
        /\ \A i \in Idx : (1 <= i /\ i < n) => Mul(a[i], pow(x[i], p[i])) = k
\* C8 amended: the two equalities hold at every index whose radicand is
\* positive and whose computation in pk_formula rounds nothing away.
C8_Residual ==
    (AfterPk /\ PkInputsPresent /\ ValidProblem) =>
        /\ SolveExact(0) =>
               Mul(a[0], pow(x[0], p[0])) = Sub(b, Mul(IntToDouble(n - 1), k))
        /\ \A i \in Idx : (1 <= i /\ i < n /\ SolveExact(i)) =>
               Mul(a[i], pow(x[i], p[i])) = k
C8_Witness ==
    /\ AfterPk /\ PkInputsPresent /\ ValidProblem /\ n = Cap
    /\ SolveExact(0) /\ SolveExact(1)
    /\ a[0] = Two /\ p[0] = Two /\ a[1] = Two /\ p[1] = Half
    /\ Mul(a[0], pow(x[0], p[0])) = Lit(0, 8, 0)
    /\ Mul(a[1], pow(x[1], p[1])) = One

\* ------------------------------------------------------------------------
\* Effects of one call
\* ------------------------------------------------------------------------
PkStep == last'.op = "pk_formula" /\ calls' = calls + 1
VerifyStep == last'.op = "verify_solution" /\ calls' = calls + 1
InputsKept == a' = a /\ p' = p /\ b' = b /\ k' = k /\ n' = n /\ ptr' = ptr
\* pk_formula writes x[0..n) at most, verify_solution writes error at most
OutputsOnly ==
    /\ PkStep => (error' = error /\ \A i \in Idx : i >= n => x'[i] = x[i])
    /\ VerifyStep => x' = x
\* a call repeated on the same inputs gives the same outputs
Repeatable ==
    /\ (AfterPk /\ PkStep) => (x' = x /\ ret' = ret)
    /\ (AfterVerify /\ VerifyStep) => (error' = error /\ ret' = ret)

====
